---- MODULE Spec2Model ----
(***************************************************************************)
(* A model of synthesis/synthesizers/_base.py: BaseDPSynthesizer, the      *)
(* FixedSamplingMixin and NotFittedError.                                  *)
(*                                                                         *)
(* An instance is a record of its attributes; an attribute the instance    *)
(* does not have is [has |-> FALSE, ...].  model_ holds a reference into   *)
(* heap, the store of fitted model structures, so that two instances can   *)
(* share one structure.  outcome is what the last call did: the operation, *)
(* its arguments,                                                          *)
(* the instance it was called on, the exception it raised ("" for a normal *)
(* return), the exception's message, the value returned and what was       *)
(* printed.  todo is the calls a scripted run has still to make.           *)
(***************************************************************************)
EXTENDS Integers, Sequences, FiniteSets, TLC

VARIABLES insts, heap, outcome, todo

vars == <<insts, heap, outcome, todo>>

(***************************************************************************)
(* Bounds of the model.                                                    *)
(***************************************************************************)
MaxCols == 2
MaxRows == 1
MaxScoreRows == 2

\* Two instances: no call involves more than the instance it is made on and,
\* for copy, the instance it returns.
InstIds == {1, 2}
\* One structure for each instance that can be fitted.
ModelRefs == InstIds

(***************************************************************************)
(* Python values.  A value is a record: its type t, an integer n (for int, *)
(* float and bool), the float's class sp ("fin", "inf", "-inf", "nan") and *)
(* a string s (for str).  Floats of the model are whole numbers.           *)
(***************************************************************************)
PyInt(k) == [t |-> "int", n |-> k, sp |-> "fin", s |-> ""]
PyFloat(k) == [t |-> "float", n |-> k, sp |-> "fin", s |-> ""]
PyInf == [t |-> "float", n |-> 0, sp |-> "inf", s |-> ""]
PyNegInf == [t |-> "float", n |-> 0, sp |-> "-inf", s |-> ""]
PyNaN == [t |-> "float", n |-> 0, sp |-> "nan", s |-> ""]
PyBool(b) == [t |-> "bool", n |-> IF b THEN 1 ELSE 0, sp |-> "fin", s |-> ""]
PyStr(str) == [t |-> "str", n |-> 0, sp |-> "fin", s |-> str]
PyNone == [t |-> "NoneType", n |-> 0, sp |-> "fin", s |-> ""]

\* The epsilon arguments the model constructs instances with; PyFloat(1) is
\* the default of __init__.
EpsilonValues ==
    { PyFloat(1), PyInt(2), PyInt(0), PyFloat(0), PyInt(-1), PyFloat(-1),
      PyInf, PyNegInf, PyNaN, PyBool(TRUE), PyBool(FALSE), PyStr("1.0"), PyNone }

\* The concrete subclasses instances are made of (the base class is abstract).
ClassNames == {"PrivBayes", "MarginalSynthesizer"}

\* isinstance(e, numbers.Real): int, float and bool are registered as Real.
IsReal(e) == e.t \in {"int", "float", "bool"}

\* e < 0 for a Real e; every comparison with NaN is False.
LtZero(e) == \/ e.sp = "-inf"
             \/ e.sp = "fin" /\ e.n < 0

\* A slip: "e is 0" for "e == 0"; only the int 0 is the object 0.
EqZero_Identity(e) == e.t = "int" /\ e.n = 0

\* e == 0 for a Real e.
EqZero(e) == e.sp = "fin" /\ e.n = 0

\* What the docstrings call a valid epsilon: a finite real above zero.
FinitePositive(e) == IsReal(e) /\ e.sp = "fin" /\ e.n > 0

(***************************************************************************)
(* Outcomes of a call.                                                     *)
(***************************************************************************)
NoRet == [kind |-> "None"]
NoArgs == << >>
Returned(v) == [exc |-> "", msg |-> "", ret |-> v, out |-> << >>]
Raised(kind, message) == [exc |-> kind, msg |-> message, ret |-> NoRet, out |-> << >>]

\* The same result, with text printed on the way.
Printing(res, text) == [res EXCEPT !.out = text]

Call(name, id, args, res) ==
    [op |-> name, self |-> id, args |-> args,
     exc |-> res.exc, msg |-> res.msg, ret |-> res.ret, out |-> res.out]

(***************************************************************************)
(* Instances.                                                              *)
(***************************************************************************)
NoColumns == [has |-> FALSE, v |-> << >>]
NoRecords == [has |-> FALSE, v |-> 0]
NoModel == [has |-> FALSE, ref |-> 0]

NoInst ==
    [exists |-> FALSE, cls |-> "", epsilon |-> PyNone, verbose |-> FALSE,
     columns_ |-> NoColumns, n_records_fit_ |-> NoRecords, model_ |-> NoModel]

\* BaseDPSynthesizer.__init__: the two attributes it binds, and nothing else.
NewInst(cls, epsilon, verbose) ==
    [exists |-> TRUE, cls |-> cls, epsilon |-> epsilon, verbose |-> verbose,
     columns_ |-> NoColumns, n_records_fit_ |-> NoRecords, model_ |-> NoModel]

\* A slot of the heap that holds no model structure yet.
NoStructure == [used |-> FALSE, levels |-> << >>, cats |-> << >>]

\* hasattr(self, 'model_')
HasModel(i) == insts[i].exists /\ insts[i].model_.has

\* No instance has been constructed and no call made.
Initial ==
    /\ insts = [i \in InstIds |-> NoInst]
    /\ heap = [r \in ModelRefs |-> NoStructure]
    /\ outcome = Call("", 0, NoArgs, Returned(NoRet))

Init == Initial /\ todo = << >>

\* A scripted run takes the call it makes off its script.
Advance == todo' = IF todo = << >> THEN << >> ELSE Tail(todo)

(***************************************************************************)
(* BaseDPSynthesizer.__init__, called by the construction of an instance   *)
(* of a concrete subclass.                                                 *)
(***************************************************************************)
Construct(i, cls, epsilon, verbose) ==
    /\ ~insts[i].exists
    /\ \A j \in InstIds : j < i => insts[j].exists
    /\ insts' = [insts EXCEPT ![i] = NewInst(cls, epsilon, verbose)]
    /\ outcome' = Call("__init__", i, <<epsilon, verbose>>, Returned(NoRet))
    /\ UNCHANGED heap
    /\ Advance

(***************************************************************************)
(* BaseDPSynthesizer._check_epsilon                                        *)
(***************************************************************************)
\* A slip: the range checks before the type check; "<" between a str or
\* None and 0 raises a TypeError of its own.
check_epsilon_RangeFirst(e) ==
    IF ~IsReal(e)
    THEN Raised("TypeError", "'<' not supported between instances of '"
                             \o e.t \o "' and 'int'")
    ELSE IF LtZero(e) THEN Raised("ValueError", "Epsilon must be non-negative")
    ELSE IF EqZero(e) THEN Raised("ValueError", "Epsilon cannot be zero")
    ELSE Returned(NoRet)

check_epsilon(e) ==
    IF ~IsReal(e) THEN Raised("TypeError", "Epsilon must be numeric")
    ELSE IF LtZero(e) THEN Raised("ValueError", "Epsilon must be non-negative")
    ELSE IF EqZero(e) THEN Raised("ValueError", "Epsilon cannot be zero")
    ELSE Returned(NoRet)

CheckEpsilon(i) ==
    /\ insts[i].exists
    /\ LET res == check_epsilon(insts[i].epsilon) IN
        outcome' = Call("_check_epsilon", i, NoArgs, res)
    /\ UNCHANGED <<insts, heap>>
    /\ Advance

\* A slip: _check_init_args with an empty body.
CheckInitArgs_NoCheck(i) ==
    /\ insts[i].exists
    /\ outcome' = Call("_check_init_args", i, NoArgs, Returned(NoRet))
    /\ UNCHANGED <<insts, heap>>
    /\ Advance

\* BaseDPSynthesizer._check_init_args: self._check_epsilon()
CheckInitArgs(i) ==
    /\ insts[i].exists
    /\ LET res == check_epsilon(insts[i].epsilon) IN
        outcome' = Call("_check_init_args", i, NoArgs, res)
    /\ UNCHANGED <<insts, heap>>
    /\ Advance

(***************************************************************************)
(* Tabular data.  A frame is [cols, rows]: the column labels and the rows, *)
(* each row a sequence of cells as long as cols.  Labels and cells are     *)
(* Python values.                                                          *)
(***************************************************************************)
Range(f) == { f[x] : x \in DOMAIN f }

Frames(labels, cells, maxCols, maxRows) ==
    UNION { { [cols |-> cs, rows |-> rs] :
                cs \in [1..c -> labels], rs \in [1..r -> [1..c -> cells]] } :
            c \in 0..maxCols, r \in 0..maxRows }

\* The labels of a frame are pairwise different.
DistinctLabels(cs) == \A a, b \in DOMAIN cs : cs[a] = cs[b] => a = b

Digit(d) ==
    CASE d = 0 -> "0" [] d = 1 -> "1" [] d = 2 -> "2" [] d = 3 -> "3"
      [] d = 4 -> "4" [] d = 5 -> "5" [] d = 6 -> "6" [] d = 7 -> "7"
      [] d = 8 -> "8" [] d = 9 -> "9"

RECURSIVE Decimal(_)
Decimal(k) ==
    IF k < 0 THEN "-" \o Decimal(-k)
    ELSE IF k < 10 THEN Digit(k)
    ELSE Decimal(k \div 10) \o Digit(k % 10)

\* str(v), the cast astype(str) applies to every cell and every label.
ToStr(v) ==
    CASE v.t = "str" -> v.s
      [] v.t = "int" -> Decimal(v.n)
      [] v.t = "bool" -> (IF v.n = 1 THEN "True" ELSE "False")
      [] v.t = "NoneType" -> "None"
      [] v.t = "float" ->
            (CASE v.sp = "fin" -> Decimal(v.n) \o ".0"
               [] v.sp = "inf" -> "inf"
               [] v.sp = "-inf" -> "-inf"
               [] v.sp = "nan" -> "nan")

\* pd.DataFrame(data).astype(str, copy=False)
AsTypeStr(data) ==
    [cols |-> data.cols,
     rows |-> [r \in DOMAIN data.rows |->
                 [c \in DOMAIN data.rows[r] |-> PyStr(ToStr(data.rows[r][c]))]]]

\* data.columns = data.columns.astype(str)
ColumnsAsTypeStr(data) ==
    [cols |-> [c \in DOMAIN data.cols |-> PyStr(ToStr(data.cols[c]))],
     rows |-> data.rows]

\* The frame _check_input_data works on and returns.
NormalizedData(data) == ColumnsAsTypeStr(AsTypeStr(data))

\* A slip: the columns recorded in sorted order (the model's labels sort
\* by their length and then by their first digit).
ColumnList_Sorted(data) ==
    LET names == [c \in DOMAIN data.cols |-> data.cols[c].s]
        Before(x, y) == x = "0" /\ y # "0"
    IN IF Len(names) = 2 /\ Before(names[2], names[1])
       THEN <<names[2], names[1]>>
       ELSE names

\* list(data.columns) of a frame whose labels are strings
ColumnList(data) == [c \in DOMAIN data.cols |-> data.cols[c].s]

\* data.shape[0]
NRows(data) == Len(data.rows)

\* A slip: the normalization starts the instance over and drops model_.
WithInputData_DropsModel(inst, data) ==
    [inst EXCEPT !.columns_ = [has |-> TRUE, v |-> ColumnList(NormalizedData(data))],
                 !.n_records_fit_ = [has |-> TRUE, v |-> NRows(NormalizedData(data))],
                 !.model_ = [has |-> FALSE, ref |-> 0]]

\* The attribute bindings of _check_input_data on an instance record.
WithInputData(inst, data) ==
    [inst EXCEPT !.columns_ = [has |-> TRUE, v |-> ColumnList(NormalizedData(data))],
                 !.n_records_fit_ = [has |-> TRUE, v |-> NRows(NormalizedData(data))]]

(***************************************************************************)
(* BaseDPSynthesizer._check_input_data                                     *)
(***************************************************************************)
CheckInputData(i, data) ==
    /\ insts[i].exists
    /\ insts' = [insts EXCEPT ![i] = WithInputData(insts[i], data)]
    /\ outcome' = Call("_check_input_data", i, <<data>>,
                       Returned([kind |-> "frame", frame |-> NormalizedData(data)]))
    /\ UNCHANGED heap
    /\ Advance

(***************************************************************************)
(* BaseDPSynthesizer._check_is_fitted                                      *)
(***************************************************************************)
NotFittedMsg(cls) ==
    "This " \o cls \o " instance is not fitted yet. Call 'fit' with "
    \o "appropriate arguments before using this synthesizer."

\* A slip: the test made on columns_, which the normalization binds.
check_is_fitted_Columns(inst) ==
    IF ~inst.columns_.has THEN Raised("NotFittedError", NotFittedMsg(inst.cls))
    ELSE Returned(NoRet)

check_is_fitted(inst) ==
    IF ~inst.model_.has THEN Raised("NotFittedError", NotFittedMsg(inst.cls))
    ELSE Returned(NoRet)

CheckIsFitted(i) ==
    /\ insts[i].exists
    /\ outcome' = Call("_check_is_fitted", i, NoArgs, check_is_fitted(insts[i]))
    /\ UNCHANGED <<insts, heap>>
    /\ Advance

(***************************************************************************)
(* BaseDPSynthesizer.copy: copy.copy(self), a new instance of the same     *)
(* class whose attributes are bound to the objects self's are bound to.    *)
(***************************************************************************)
\* A slip: the copy made by constructing anew, type(self)(epsilon, verbose).
ShallowCopy_Constructed(inst) ==
    [exists |-> TRUE, cls |-> inst.cls, epsilon |-> inst.epsilon,
     verbose |-> inst.verbose, columns_ |-> [has |-> FALSE, v |-> << >>],
     n_records_fit_ |-> [has |-> FALSE, v |-> 0],
     model_ |-> [has |-> FALSE, ref |-> 0]]

ShallowCopy(inst) == inst

Copy(i, j) ==
    /\ insts[i].exists
    /\ ~insts[j].exists
    /\ \A k \in InstIds : k < j => insts[k].exists
    /\ insts' = [insts EXCEPT ![j] = ShallowCopy(insts[i])]
    /\ outcome' = Call("copy", i, NoArgs, Returned([kind |-> "instance", id |-> j]))
    /\ UNCHANGED heap
    /\ Advance

(***************************************************************************)
(* BaseDPSynthesizer.save: dill.dump(self, output).  The file written is   *)
(* outside the state of the instances; pickling reads self and binds       *)
(* nothing on it.                                                          *)
(***************************************************************************)
Save(i) ==
    /\ insts[i].exists
    /\ outcome' = Call("save", i, NoArgs, Returned(NoRet))
    /\ UNCHANGED <<insts, heap>>
    /\ Advance

(***************************************************************************)
(* fit of a concrete subclass (abstract in the base class): it validates   *)
(* the constructor's arguments, normalizes the data and binds model_ to a  *)
(* new structure indexed by the columns, each level holding the categories *)
(* seen in the data.  It returns self.                                     *)
(***************************************************************************)
StructureOf(frame) ==
    [used |-> TRUE,
     levels |-> ColumnList(frame),
     cats |-> [c \in DOMAIN frame.cols |->
                 { frame.rows[r][c].s : r \in DOMAIN frame.rows }]]

FreeRefs == { r \in ModelRefs : ~heap[r].used }

Fit(i, data) ==
    /\ insts[i].exists
    /\ Advance
    /\ LET res == check_epsilon(insts[i].epsilon) IN
        IF res.exc # ""
        THEN /\ outcome' = Call("fit", i, <<data>>, res)
             /\ UNCHANGED <<insts, heap>>
        ELSE /\ FreeRefs # {}
             /\ DistinctLabels(NormalizedData(data).cols)
             /\ LET r == CHOOSE x \in FreeRefs : \A y \in FreeRefs : x <= y IN
                 /\ insts' = [insts EXCEPT ![i] =
                                [WithInputData(insts[i], data)
                                    EXCEPT !.model_ = [has |-> TRUE, ref |-> r]]]
                 /\ heap' = [heap EXCEPT ![r] = StructureOf(NormalizedData(data))]
             /\ outcome' = Call("fit", i, <<data>>,
                                Returned([kind |-> "instance", id |-> i]))

\* A caller's change of the fitted structure in place, through instance i:
\* category v is added to level c.
MutateModel(i, c, v) ==
    /\ HasModel(i)
    /\ c \in DOMAIN heap[insts[i].model_.ref].cats
    /\ heap' = [heap EXCEPT ![insts[i].model_.ref].cats[c] = @ \cup {v}]
    /\ outcome' = Call("model_ changed in place", i, <<c, v>>, Returned(NoRet))
    /\ UNCHANGED insts
    /\ Advance

(***************************************************************************)
(* FixedSamplingMixin._check_fixed_data.  Fixed data is [kind, name, cols, *)
(* rows]: a "Series" has a name and one column of values, a "DataFrame"    *)
(* has labelled columns, any other kind is neither.                        *)
(***************************************************************************)
AttributeError(inst, attr) ==
    Raised("AttributeError",
           "'" \o inst.cls \o "' object has no attribute '" \o attr \o "'")

\* A slip: str(label) in self.columns_, which finds the int 0 in ["0"].
InColumns_Cast(label, columns) ==
    \E k \in DOMAIN columns : columns[k] = ToStr(label)

\* label in self.columns_ : columns_ holds strings, and no int equals a string
InColumns(label, columns) ==
    label.t = "str" /\ \E k \in DOMAIN columns : columns[k] = label.s

\* set(fixed_data.columns) == set(self.columns_)
SameColumnSet(labels, columns) ==
    Range(labels) = { PyStr(columns[k]) : k \in DOMAIN columns }

\* The positions of the model's levels named c.
LevelsNamed(structure, c) ==
    { k \in DOMAIN structure.levels : c.t = "str" /\ structure.levels[k] = c.s }

\* set(np.unique(fixed_data[c])) for the column at position k
FixedValues(fd, k) == { fd.rows[r][k] : r \in DOMAIN fd.rows }

\* A slip: the fixed values need only be among the model's categories.
check_categories_Subset(inst, fd, k) ==
    IF ~inst.model_.has THEN AttributeError(inst, "model_")
    ELSE LET structure == heap[inst.model_.ref]
             named == LevelsNamed(structure, fd.cols[k])
         IN IF named = {} THEN Raised("KeyError", "Level not found")
            ELSE LET lv == CHOOSE x \in named : \A y \in named : x <= y IN
                 IF FixedValues(fd, k) \subseteq { PyStr(v) : v \in structure.cats[lv] }
                 THEN Returned(NoRet)
                 ELSE Raised("AssertionError",
                             "conditioning variable has different categories for column: "
                             \o ToStr(fd.cols[k]))

\* What the loop's body does for the fixed column at position k.
check_categories(inst, fd, k) ==
    IF ~inst.model_.has THEN AttributeError(inst, "model_")
    ELSE LET structure == heap[inst.model_.ref]
             named == LevelsNamed(structure, fd.cols[k])
         IN IF named = {} THEN Raised("KeyError", "Level not found")
            ELSE LET lv == CHOOSE x \in named : \A y \in named : x <= y IN
                 IF { PyStr(v) : v \in structure.cats[lv] } = FixedValues(fd, k)
                 THEN Returned(NoRet)
                 ELSE Raised("AssertionError",
                             "conditioning variable has different categories for column: "
                             \o ToStr(fd.cols[k]))

\* [c for c in self.columns_ if c not in fixed_data.columns]
sample_columns(inst, fd) ==
    LET NotFixed(c) == PyStr(c) \notin Range(fd.cols)
    IN SelectSeq(inst.columns_.v, NotFixed)

check_fixed_data(inst, fd) ==
    IF fd.kind = "Series" THEN
        IF ~inst.columns_.has THEN AttributeError(inst, "columns_")
        ELSE IF ~InColumns(fd.name, inst.columns_.v)
        THEN Raised("ValueError", "Columns in fixed data not seen in fit.")
        ELSE Returned(NoRet)
    ELSE IF fd.kind = "DataFrame" THEN
        IF fd.cols # << >> /\ ~inst.columns_.has
        THEN AttributeError(inst, "columns_")
        ELSE IF \E k \in DOMAIN fd.cols : ~InColumns(fd.cols[k], inst.columns_.v)
        THEN Raised("ValueError", "Columns in fixed data not seen in fit.")
        ELSE IF ~inst.columns_.has THEN AttributeError(inst, "columns_")
        ELSE IF SameColumnSet(fd.cols, inst.columns_.v)
        THEN Raised("ValueError",
                    "Fixed data already contains all the columns that were seen in fit.")
        ELSE LET failing == { k \in DOMAIN fd.cols :
                                check_categories(inst, fd, k).exc # "" }
             IN IF failing # {}
                THEN check_categories(inst, fd,
                        CHOOSE k \in failing : \A m \in failing : k <= m)
                ELSE IF inst.verbose
                THEN Printing(Returned(NoRet),
                              <<"Columns sampled and added to fixed data: ",
                                sample_columns(inst, fd)>>)
                ELSE Returned(NoRet)
    ELSE Returned(NoRet)

CheckFixedData(i, fd) ==
    /\ insts[i].exists
    /\ outcome' = Call("_check_fixed_data", i, <<fd>>, check_fixed_data(insts[i], fd))
    /\ UNCHANGED <<insts, heap>>
    /\ Advance

\* FixedSamplingMixin.sample_remaining_columns: raise NotImplementedError
MixinSampleRemainingColumns(i, fd) ==
    /\ insts[i].exists
    /\ outcome' = Call("FixedSamplingMixin.sample_remaining_columns", i, <<fd>>,
                       Raised("NotImplementedError", ""))
    /\ UNCHANGED <<insts, heap>>
    /\ Advance

(***************************************************************************)
(* sample_remaining_columns of a concrete subclass: it requires a fitted   *)
(* model, validates the fixed frame and returns the frame completed to the *)
(* fitted columns.                                                         *)
(***************************************************************************)
sample_remaining_columns(inst, fd) ==
    IF check_is_fitted(inst).exc # "" THEN check_is_fitted(inst)
    ELSE IF check_fixed_data(inst, fd).exc # "" THEN check_fixed_data(inst, fd)
    ELSE [check_fixed_data(inst, fd)
            EXCEPT !.ret = [kind |-> "frame", cols |-> inst.columns_.v]]

SampleRemainingColumns(i, fd) ==
    /\ insts[i].exists
    /\ fd.kind = "DataFrame"
    /\ outcome' = Call("sample_remaining_columns", i, <<fd>>,
                       sample_remaining_columns(insts[i], fd))
    /\ UNCHANGED <<insts, heap>>
    /\ Advance

(***************************************************************************)
(* BaseDPSynthesizer.score                                                 *)
(***************************************************************************)
\* The positions of the columns of a frame labelled c.
Positions(frame, c) == { k \in DOMAIN frame.cols : frame.cols[k] = c }

\* frame[c], for a label the frame has once: the column's values, row by row.
Column(frame, c) ==
    LET k == CHOOSE x \in Positions(frame, c) : TRUE
    IN [r \in DOMAIN frame.rows |-> frame.rows[r][k]]

\* Series.value_counts(dropna=False): the count of every value observed, a
\* missing value (NaN) counted as a value of its own.
value_counts(col) ==
    [v \in Range(col) |-> Cardinality({ r \in DOMAIN col : col[r] = v })]

\* A slip: join='left', the index of the original's counts alone.
align_LeftJoin(left, right) ==
    LET index == DOMAIN left
    IN <<[v \in index |-> left[v]],
         [v \in index |-> IF v \in DOMAIN right THEN right[v] ELSE 0]>>

\* left.align(right, join='outer', axis=0, fill_value=0)
align(left, right) ==
    LET index == DOMAIN left \cup DOMAIN right
    IN <<[v \in index |-> IF v \in DOMAIN left THEN left[v] ELSE 0],
         [v \in index |-> IF v \in DOMAIN right THEN right[v] ELSE 0]>>

RECURSIVE SumOver(_, _)
SumOver(f, S) ==
    IF S = {} THEN 0
    ELSE LET x == CHOOSE y \in S : TRUE IN f[x] + SumOver(f, S \ {x})

Total(f) == SumOver(f, DOMAIN f)

(***************************************************************************)
(* scipy.spatial.distance.jensenshannon(p, q), for count vectors over one  *)
(* index: p and q are divided by their sums P and Q, m = (p + q) / 2, and  *)
(* the distance is sqrt((sum(rel_entr(p, m)) + sum(rel_entr(q, m))) / 2).  *)
(* The model keeps the distance as that expression over the integers:      *)
(* with the common denominator P * Q, p[v] is p[v] * Q, q[v] is q[v] * P   *)
(* and m[v] their sum (over 2 * P * Q); each of the two sums is the bag of *)
(* its terms <<numerator, numerator of m>>, and the addition of the two    *)
(* sums is the set of the two bags.  Equal expressions are equal           *)
(* distances.                                                              *)
(***************************************************************************)
TermBag(num, mid) ==
    LET terms == { <<num[v], mid[v]>> : v \in DOMAIN num }
    IN [t \in terms |-> Cardinality({ v \in DOMAIN num : <<num[v], mid[v]>> = t })]

jensenshannon(p, q) ==
    LET P == Total(p)
        Q == Total(q)
        pn == [v \in DOMAIN p |-> p[v] * Q]
        qn == [v \in DOMAIN q |-> q[v] * P]
        m == [v \in DOMAIN p |-> pn[v] + qn[v]]
    IN [den |-> P * Q, sums |-> { TermBag(pn, m), TermBag(qn, m) }]

\* The distance of column c of the two frames.
column_distance(original, synthetic, c) ==
    LET counts == align(value_counts(Column(original, c)),
                        value_counts(Column(synthetic, c)))
    IN jensenshannon(counts[1], counts[2])

\* sum(column_distances.values()) / len(original_data.columns): the sum is
\* kept as the distances added, in the order of the columns.
average_distance(distances, n) == [sum |-> distances, over |-> n]

score(original, synthetic, score_dict) ==
    IF \E k \in DOMAIN original.cols : Positions(synthetic, original.cols[k]) = {}
    THEN Raised("KeyError", "column of the original data not in the synthetic data")
    ELSE IF Len(original.cols) = 0
    THEN Raised("ZeroDivisionError", "division by zero")
    ELSE LET column_distances ==
                [k \in DOMAIN original.cols |->
                    column_distance(original, synthetic, original.cols[k])]
             average_column_distance ==
                average_distance(column_distances, Len(original.cols))
         IN IF score_dict
            THEN Returned([kind |-> "tuple", average |-> average_column_distance,
                           distances |-> [k \in DOMAIN original.cols |->
                                <<original.cols[k], column_distances[k]>>]])
            ELSE Returned([kind |-> "float", average |-> average_column_distance])

Score(i, original, synthetic, score_dict) ==
    /\ insts[i].exists
    /\ DistinctLabels(original.cols)
    /\ DistinctLabels(synthetic.cols)
    /\ outcome' = Call("score", i, <<original, synthetic, score_dict>>,
                       score(original, synthetic, score_dict))
    /\ UNCHANGED <<insts, heap>>
    /\ Advance

(***************************************************************************)
(* Inputs.                                                                 *)
(***************************************************************************)
\* Column labels and cells of input data: an int label is what the columns
\* of a numpy array get.
Labels == {PyInt(0), PyStr("a")}
Cells == {PyInt(1), PyNaN}

InputFrames == Frames(Labels, Cells, MaxCols, MaxRows)

\* The input frames without rows, and those with as many rows as can be.
EmptyFrames == { d \in InputFrames : d.rows = << >> }
FullFrames == { d \in InputFrames : Len(d.rows) = MaxRows }

\* The frames the scripted runs fit: the columns of a fitted structure are
\* told apart by their names.
FitFrames == { d \in FullFrames : DistinctLabels(NormalizedData(d).cols) }

\* Labels and cells of fixed data: the strings the inputs are cast to, and
\* the int label 0, which no fitted column has.  A fixed frame has some of
\* the labels, each once, and not all of them.
FixedLabels == {PyStr("0"), PyStr("a"), PyInt(0)}
FixedCells == {PyStr("1"), PyStr("nan")}

FixedFrames ==
    { [kind |-> "DataFrame", name |-> PyNone, cols |-> f.cols, rows |-> f.rows] :
        f \in { g \in Frames(FixedLabels, FixedCells,
                              Cardinality(FixedLabels) - 1, MaxRows) :
                    DistinctLabels(g.cols) } }

FixedSeries ==
    { [kind |-> "Series", name |-> f.cols[1], cols |-> f.cols, rows |-> f.rows] :
        f \in { g \in Frames(FixedLabels, FixedCells, 1, MaxRows) : Len(g.cols) = 1 } }

FixedArray == [kind |-> "ndarray", name |-> PyNone, cols |-> << >>, rows |-> << >>]

FixedInputs == FixedFrames \cup FixedSeries \cup {FixedArray}

\* The frames score is given: string labels, and cells that are a string or
\* missing.
ScoreFrames ==
    { f \in Frames({PyStr("0"), PyStr("a")}, {PyStr("1"), PyNaN}, MaxCols, MaxScoreRows) :
        DistinctLabels(f.cols) }

\* Two frames, a fixed frame and a fixed series for the runs in which calls
\* interleave freely.
FrameA == [cols |-> <<PyInt(0)>>, rows |-> << <<PyInt(1)>> >>]
FrameB == [cols |-> <<PyStr("a"), PyInt(0)>>, rows |-> << <<PyNaN, PyInt(1)>> >>]
FixedA == [kind |-> "DataFrame", name |-> PyNone,
           cols |-> <<PyStr("0")>>, rows |-> << <<PyStr("1")>> >>]
SeriesA == [kind |-> "Series", name |-> PyStr("a"),
            cols |-> <<PyStr("a")>>, rows |-> << <<PyStr("nan")>> >>]

(***************************************************************************)
(* Spec: the calls of the base class, of the mixin and of a concrete       *)
(* subclass, in any order and on any instance.                             *)
(***************************************************************************)
Next ==
    \/ \E i \in InstIds, e \in {PyFloat(1), PyInt(0)} :
            Construct(i, "PrivBayes", e, TRUE)
    \/ \E i \in InstIds : CheckEpsilon(i)
    \/ \E i \in InstIds : CheckInitArgs(i)
    \/ \E i \in InstIds, d \in {FrameA, FrameB} : CheckInputData(i, d)
    \/ \E i \in InstIds : CheckIsFitted(i)
    \/ \E i \in InstIds, fd \in {FixedA, SeriesA} : CheckFixedData(i, fd)
    \/ \E i \in InstIds : MixinSampleRemainingColumns(i, FixedA)
    \/ \E i \in InstIds : SampleRemainingColumns(i, FixedA)
    \/ \E i \in InstIds, sd \in BOOLEAN :
            Score(i, NormalizedData(FrameB), NormalizedData(FrameB), sd)
    \/ \E i, j \in InstIds : Copy(i, j)
    \/ \E i \in InstIds : Save(i)
    \/ \E i \in InstIds, d \in {FrameA, FrameB} : Fit(i, d)
    \/ \E i \in InstIds : MutateModel(i, 1, "z")

Spec == Init /\ [][Next]_vars

(***************************************************************************)
(* SpecEpsilon: instances constructed with every kind of epsilon, and the  *)
(* calls of the base class on them.                                        *)
(***************************************************************************)
NextEpsilon ==
    \/ \E i \in InstIds, e \in EpsilonValues : Construct(i, "PrivBayes", e, TRUE)
    \/ \E i \in InstIds : CheckEpsilon(i)
    \/ \E i \in InstIds : CheckInitArgs(i)
    \/ \E i \in InstIds : CheckInputData(i, FrameA)
    \/ \E i \in InstIds : CheckIsFitted(i)
    \/ \E i \in InstIds : Score(i, NormalizedData(FrameA), NormalizedData(FrameA), FALSE)
    \/ \E i, j \in InstIds : Copy(i, j)
    \/ \E i \in InstIds : Save(i)

SpecEpsilon == Init /\ [][NextEpsilon]_vars

(***************************************************************************)
(* Scripted runs: the calls are drawn at the start and made in order, all  *)
(* on the first instance.                                                  *)
(***************************************************************************)
DoInit(cls, epsilon, verbose) ==
    [op |-> "__init__", cls |-> cls, epsilon |-> epsilon, verbose |-> verbose]
DoInputData(data) == [op |-> "_check_input_data", data |-> data]
DoFit(data) == [op |-> "fit", data |-> data]
DoIsFitted == [op |-> "_check_is_fitted"]
DoFixedData(fd) == [op |-> "_check_fixed_data", fixed |-> fd]
DoSample(fd) == [op |-> "sample_remaining_columns", fixed |-> fd]
DoMixinSample(fd) == [op |-> "FixedSamplingMixin.sample_remaining_columns", fixed |-> fd]
DoScore(original, synthetic, score_dict) ==
    [op |-> "score", original |-> original, synthetic |-> synthetic,
     score_dict |-> score_dict]

\* The call a scripted run makes next.
Calls == IF todo = << >> THEN {} ELSE {Head(todo)}

RunInit == \E c \in Calls :
    c.op = "__init__" /\ Construct(1, c.cls, c.epsilon, c.verbose)
RunInputData == \E c \in Calls :
    c.op = "_check_input_data" /\ CheckInputData(1, c.data)
RunFit == \E c \in Calls : c.op = "fit" /\ Fit(1, c.data)
RunIsFitted == \E c \in Calls : c.op = "_check_is_fitted" /\ CheckIsFitted(1)
RunFixedData == \E c \in Calls :
    c.op = "_check_fixed_data" /\ CheckFixedData(1, c.fixed)
RunSample == \E c \in Calls :
    c.op = "sample_remaining_columns" /\ SampleRemainingColumns(1, c.fixed)
RunMixinSample == \E c \in Calls :
    /\ c.op = "FixedSamplingMixin.sample_remaining_columns"
    /\ MixinSampleRemainingColumns(1, c.fixed)
RunScore == \E c \in Calls :
    c.op = "score" /\ Score(1, c.original, c.synthetic, c.score_dict)

\* SpecData: two normalizations in a row, of any two input frames.
DataScripts ==
    { <<DoInit("PrivBayes", PyFloat(1), TRUE), DoInputData(d1), DoInputData(d2)>> :
        d1 \in {FrameA, FrameB}, d2 \in InputFrames }

InitData == Initial /\ todo \in DataScripts
NextData == RunInit \/ RunInputData
SpecData == InitData /\ [][NextData]_vars

\* SpecFixed: an instance of either class, left unfitted or fitted, its
\* columns_ bound by a normalization or not, and then one call that needs a
\* fitted model.
Preparations ==
    { << >> }
    \cup { <<DoInputData(d)>> : d \in EmptyFrames }
    \cup { <<DoFit(d)>> : d \in FitFrames }
    \cup { <<DoFit(d), DoInputData(r)>> :
            d \in { f \in FitFrames : Len(f.cols) = 2 },
            r \in { f \in EmptyFrames : Len(f.cols) = 1 } }

FittedCalls ==
    {DoIsFitted, DoMixinSample(FixedA)}
    \cup { DoFixedData(fd) : fd \in FixedInputs }
    \cup { DoSample(fd) : fd \in FixedFrames }

FixedScripts ==
    { <<DoInit(k[1], PyFloat(1), k[2])>> \o p \o <<c>> :
        k \in {<<"PrivBayes", TRUE>>, <<"MarginalSynthesizer", FALSE>>},
        p \in Preparations, c \in FittedCalls }

InitFixed == Initial /\ todo \in FixedScripts
NextFixed ==
    RunInit \/ RunInputData \/ RunFit \/ RunIsFitted \/ RunFixedData
        \/ RunSample \/ RunMixinSample
SpecFixed == InitFixed /\ [][NextFixed]_vars

\* SpecScore: one call of score, on two frames with the same columns or on
\* a synthetic frame without columns.
ScorePairs ==
    { pr \in ScoreFrames \X ScoreFrames :
        pr[2].cols = pr[1].cols \/ pr[2].cols = << >> }

ScoreScripts ==
    { <<DoInit("PrivBayes", PyFloat(1), TRUE), DoScore(pr[1], pr[2], sd)>> :
        pr \in ScorePairs, sd \in BOOLEAN }

InitScore == Initial /\ todo \in ScoreScripts
NextScore == RunInit \/ RunScore
SpecScore == InitScore /\ [][NextScore]_vars

(***************************************************************************)
(* Claims.                                                                 *)
(***************************************************************************)
\* The instance the last call was made on.
Self == insts[outcome.self]

\* A real number above zero, infinity included.
Positive(e) == IsReal(e) /\ (e.sp = "inf" \/ (e.sp = "fin" /\ e.n > 0))
\* A real number that is zero or below it.
ZeroOrNegative(e) == IsReal(e) /\ (e.sp = "-inf" \/ (e.sp = "fin" /\ e.n <= 0))

BaseOps ==
    {"__init__", "_check_init_args", "_check_epsilon", "_check_input_data",
     "_check_is_fitted", "_check_fixed_data", "score", "copy", "save"}

\* C3: an instance has model_ or it has not.  No operation of the base
\* class adds or removes model_ on an instance; an instance without model_
\* gets one only by a fit that returns normally on it; an instance with
\* model_ keeps having one.
C3_FittedOnlyByFit ==
    [][\A i \in InstIds : insts[i].exists =>
        /\ insts'[i].exists
        /\ outcome'.op \in BaseOps => (insts'[i].model_.has <=> insts[i].model_.has)
        /\ insts[i].model_.has => insts'[i].model_.has
        /\ (~insts[i].model_.has /\ insts'[i].model_.has) =>
            outcome'.op = "fit" /\ outcome'.self = i /\ outcome'.exc = ""]_vars

\* A fitted instance on which the normalization has then been run.
C3_Witness ==
    /\ outcome.op = "_check_input_data"
    /\ Self.model_.has
    /\ \E i \in InstIds : insts[i].exists /\ ~insts[i].model_.has

\* C7: copy returns an instance that did not exist before, whose every
\* attribute is bound to what the original's is bound to, and leaves the
\* original and the structures as they were.  A later normalization on one
\* instance binds columns_ and n_records_fit_ on that instance alone; a
\* change made in place to the structure model_ refers to is seen through
\* every instance whose model_ refers to that structure.
C7_ShallowCopy ==
    [][/\ outcome'.op = "copy" =>
            LET i == outcome'.self
                j == outcome'.ret.id
            IN /\ j # i /\ ~insts[j].exists /\ insts'[j].exists
               /\ insts'[j].cls = insts[i].cls
               /\ insts'[j].epsilon = insts[i].epsilon
               /\ insts'[j].verbose = insts[i].verbose
               /\ insts'[j].columns_ = insts[i].columns_
               /\ insts'[j].n_records_fit_ = insts[i].n_records_fit_
               /\ insts'[j].model_ = insts[i].model_
               /\ insts'[i] = insts[i]
               /\ heap' = heap
       /\ outcome'.op = "_check_input_data" =>
            /\ \A k \in InstIds \ {outcome'.self} : insts'[k] = insts[k]
            /\ heap' = heap
       /\ outcome'.op = "model_ changed in place" =>
            \A k \in InstIds :
                (insts[k].exists /\ insts[k].model_ = insts[outcome'.self].model_) =>
                    outcome'.args[2] \in
                        heap'[insts'[k].model_.ref].cats[outcome'.args[1]]]_vars

\* A copy and its original share a structure that was changed in place
\* through one of them, after columns_ was bound again on one of them.
C7_Witness ==
    /\ outcome.op = "model_ changed in place"
    /\ \E k \in InstIds \ {outcome.self} :
        /\ insts[k].exists
        /\ insts[k].model_ = Self.model_
        /\ insts[k].columns_ # Self.columns_
        /\ "z" \in heap[insts[k].model_.ref].cats[1]

\* What str() gives for the labels and cells of the input frames.
Cast(v) ==
    CASE v = PyInt(0) -> "0"
      [] v = PyInt(1) -> "1"
      [] v = PyNaN -> "nan"
      [] v.t = "str" -> v.s

\* C4: after _check_input_data(data), columns_ is the list of data's column
\* labels cast to strings, in their order, and n_records_fit_ is the number
\* of data's rows, whatever an earlier normalization had bound; the frame
\* returned has data's shape, and every label and every cell of it is the
\* string the input's label or cell is cast to.
C4_InputDataRecorded ==
    outcome.op = "_check_input_data" =>
        LET data == outcome.args[1]
            frame == outcome.ret.frame
        IN /\ outcome.exc = ""
           /\ Self.columns_.has /\ Self.n_records_fit_.has
           /\ Len(Self.columns_.v) = Len(data.cols)
           /\ \A c \in DOMAIN data.cols : Self.columns_.v[c] = Cast(data.cols[c])
           /\ Self.n_records_fit_.v = Len(data.rows)
           /\ Len(frame.cols) = Len(data.cols) /\ Len(frame.rows) = Len(data.rows)
           /\ \A c \in DOMAIN data.cols : frame.cols[c] = PyStr(Cast(data.cols[c]))
           /\ \A r \in DOMAIN data.rows : \A c \in DOMAIN data.cols :
                frame.rows[r][c] = PyStr(Cast(data.rows[r][c]))

\* The second normalization of a run, of a frame with other columns than
\* the first, with an int label and a missing cell in it.
C4_Witness ==
    /\ outcome.op = "_check_input_data"
    /\ todo = << >>
    /\ outcome.args[1].cols = <<PyInt(0), PyStr("a")>>
    /\ Self.columns_.v = <<"0", "a">>
    /\ Self.n_records_fit_.v = 1
    /\ outcome.ret.frame.rows = << <<PyStr("nan"), PyStr("1")>> >>

\* The two count vectors score computes the distance of, for the column at
\* position k of two frames with the same columns.
AlignedCounts(a, b, k) ==
    align(value_counts(Column(a, a.cols[k])), value_counts(Column(b, a.cols[k])))

Fixed == outcome.args[1]
NotFittedText(cls) ==
    CASE cls = "PrivBayes" ->
            "This PrivBayes instance is not fitted yet. Call 'fit' with appropriate arguments before using this synthesizer."
      [] cls = "MarginalSynthesizer" ->
            "This MarginalSynthesizer instance is not fitted yet. Call 'fit' with appropriate arguments before using this synthesizer."
\* The label is one of the instance's columns_.
Seen(label, inst) ==
    label.t = "str" /\ \E k \in DOMAIN inst.columns_.v : inst.columns_.v[k] = label.s
\* Every one of the instance's columns_ is a label of the fixed data.
Covered(fd, inst) ==
    \A k \in DOMAIN inst.columns_.v :
        \E c \in DOMAIN fd.cols : fd.cols[c] = PyStr(inst.columns_.v[k])
\* The fixed column at position c has the categories of the model's level
\* of its name.
SameCategories(fd, c, inst) ==
    \E lv \in DOMAIN heap[inst.model_.ref].levels :
        /\ fd.cols[c] = PyStr(heap[inst.model_.ref].levels[lv])
        /\ { fd.rows[r][c] : r \in DOMAIN fd.rows }
                = { PyStr(v) : v \in heap[inst.model_.ref].cats[lv] }

\* C2, as stated: on an instance without model_, _check_is_fitted and
\* _check_fixed_data both fail with NotFittedError, whose message names the
\* instance's type.
C2_UnfittedRaisesNotFitted ==
    (outcome.op \in {"_check_is_fitted", "_check_fixed_data"} /\ ~Self.model_.has) =>
        outcome.exc = "NotFittedError" /\ outcome.msg = NotFittedText(Self.cls)

\* C2, amended: _check_is_fitted fails with NotFittedError, whose message
\* names the instance's type, exactly when the instance has no model_.
\* _check_fixed_data makes no such check and never raises NotFittedError:
\* on an instance without model_ it raises AttributeError when it reads
\* columns_ or model_ and the instance has none, the ValueError of the
\* column checks when columns_ is bound and the columns are not a strict
\* subset of it, and returns normally for a Series whose name is in
\* columns_, for a DataFrame without columns (columns_ bound and not
\* empty) and for an input that is neither.
C2_NotFittedOnlyByCheckIsFitted ==
    /\ outcome.op = "_check_is_fitted" =>
        IF Self.model_.has THEN outcome.exc = ""
        ELSE outcome.exc = "NotFittedError" /\ outcome.msg = NotFittedText(Self.cls)
    /\ (outcome.op = "_check_fixed_data" /\ ~Self.model_.has) =>
        /\ outcome.exc \in {"", "AttributeError", "ValueError"}
        /\ (Fixed.kind \in {"Series", "DataFrame"} /\ ~Self.columns_.has) =>
                outcome.exc = "AttributeError"
        /\ (Fixed.kind = "DataFrame" /\ Fixed.cols # << >> /\ Self.columns_.has) =>
                outcome.exc = IF /\ \A c \in DOMAIN Fixed.cols : Seen(Fixed.cols[c], Self)
                                 /\ ~Covered(Fixed, Self)
                              THEN "AttributeError" ELSE "ValueError"
        /\ outcome.exc = "" =>
            \/ Fixed.kind = "Series" /\ Seen(Fixed.name, Self)
            \/ Fixed.kind = "DataFrame" /\ Fixed.cols = << >> /\ Self.columns_.v # << >>
            \/ Fixed.kind \notin {"Series", "DataFrame"}

\* _check_fixed_data has failed on an instance that has columns_ bound and
\* no model_, and not with NotFittedError.
C2_Witness ==
    /\ outcome.op = "_check_fixed_data"
    /\ Self.columns_.has /\ ~Self.model_.has
    /\ outcome.exc = "AttributeError"

C10_CheckedForAnyInput ==
    (outcome.op = "_check_fixed_data" /\ outcome.exc = "" /\ Self.model_.has) =>
        /\ Fixed.cols # << >>
        /\ \A c \in DOMAIN Fixed.cols : Seen(Fixed.cols[c], Self)
        /\ ~Covered(Fixed, Self)
        /\ \A c \in DOMAIN Fixed.cols : SameCategories(Fixed, c, Self)

\* C10, amended: when _check_fixed_data returns normally on a fitted
\* instance for a DataFrame, the frame's columns are a strict subset of
\* columns_, possibly empty, and every fixed column has the categories of
\* the model's level of its name; for a Series it has checked only that the
\* name is in columns_, for another input nothing.  It raises
\* AssertionError only for a DataFrame that passes the column checks and
\* has a column whose values are not the categories of the model's level,
\* and ValueError only when a column check fails.
C10_CheckedForDataFrame ==
    (outcome.op = "_check_fixed_data" /\ Self.model_.has) =>
        /\ (outcome.exc = "" /\ Fixed.kind = "DataFrame") =>
            /\ \A c \in DOMAIN Fixed.cols : Seen(Fixed.cols[c], Self)
            /\ ~Covered(Fixed, Self)
            /\ \A c \in DOMAIN Fixed.cols : SameCategories(Fixed, c, Self)
        /\ (outcome.exc = "" /\ Fixed.kind = "Series") => Seen(Fixed.name, Self)
        /\ Fixed.kind \notin {"Series", "DataFrame"} => outcome.exc = ""
        /\ outcome.exc = "AssertionError" =>
            /\ Fixed.kind = "DataFrame"
            /\ \A c \in DOMAIN Fixed.cols : Seen(Fixed.cols[c], Self)
            /\ ~Covered(Fixed, Self)
            /\ \E c \in DOMAIN Fixed.cols : ~SameCategories(Fixed, c, Self)
        /\ outcome.exc = "ValueError" =>
            \/ Fixed.kind = "Series" /\ ~Seen(Fixed.name, Self)
            \/ /\ Fixed.kind = "DataFrame"
               /\ \/ \E c \in DOMAIN Fixed.cols : ~Seen(Fixed.cols[c], Self)
                  \/ Covered(Fixed, Self)

\* A fixed frame with one of two fitted columns and the model's categories
\* in it has passed the validation.
C10_Witness ==
    /\ outcome.op = "_check_fixed_data"
    /\ outcome.exc = ""
    /\ Self.model_.has
    /\ Fixed.kind = "DataFrame"
    /\ Len(Fixed.cols) = 1
    /\ Fixed.rows # << >>
    /\ Len(Self.columns_.v) = 2

====
